---- MODULE Spec2Model ----
(***************************************************************************)
(* A model of the memo_ai backend: the completion client                   *)
(* (api/llm_client.py: generate_json, prepare_multimodal_prompt) and the   *)
(* handlers of api/index.py: save with its sanitizer                       *)
(* (sanitize_image_data), analyze, chat_endpoint, get_schema, get_targets. *)
(*                                                                         *)
(* Text is a sequence of characters; a character is a one-element string   *)
(* (the four CJK characters of the marker are named by their code point).  *)
(***************************************************************************)
EXTENDS Integers, Sequences, FiniteSets, TLC

VARIABLES
    pc,         \* generate_json: position of the coroutine
    retries,    \* generate_json: the retry budget in force (after line 46-47)
    attempt,    \* generate_json: the loop variable of line 49
    response,   \* generate_json: what acompletion returned in this attempt
    exc,        \* generate_json: the exception caught at line 95
    result,     \* generate_json: the returned dict (line 88-93), None if none
    raised,     \* generate_json: the exception that left the call
    log,        \* observation: provider calls, failures and sleeps, in order
    prompt,     \* generate_json: the prompt argument
    image,      \* caller: the arguments of prepare_multimodal_prompt, if called
    san_pc,     \* sanitizer runs: "idle", "input", "once", "twice"
    san_text,   \* sanitizer runs: the text given
    san_once,   \* sanitizer runs: sanitize_image_data(san_text)
    san_twice,  \* sanitizer runs: sanitize_image_data(san_once)
    save_pc,    \* save: position of the handler
    request,    \* save: the SaveRequest being handled, written down (RequestOf)
    writes,     \* save: the external writes issued, in order
    write_result,   \* save: how the external write ended (None before it)
    save_response,  \* save: the HTTP response
    an_pc,      \* analyze: position of the handler
    an_request, \* analyze: the AnalyzeRequest being handled
    an_fetch,   \* analyze: how each of the two gathered fetches ended
    an_order,   \* observation: the fetches in the order they completed
    an_calls,   \* analyze: the calls of analyze_text_with_ai, their arguments
    an_response,    \* analyze: the HTTP response
    chat_pc,    \* chat_endpoint: position of the handler
    chat_request,   \* chat_endpoint: the ChatRequest being handled
    chat_calls, \* chat_endpoint: the calls of chat_analyze_text_with_ai
    chat_response,  \* chat_endpoint: the HTTP response
    gs_pc,      \* get_schema: position of the call
    gs_lookups, \* get_schema: the lookups issued, in order
    gs_outcome, \* get_schema: what the call returned or raised
    gs_db,      \* get_schema: how the await of get_db_schema ended
    gs_page,    \* get_schema: how the await of get_page_info ended
    db_error,   \* get_schema: the local of line 476, <<>> for None
    page_error, \* get_schema: the local of line 477, <<>> for None
    tg_pc,      \* get_targets: position of the handler
    tg_children,    \* get_targets: the child blocks of the root page
    tg_results, \* get_targets: how process_block ended for each block
    tg_order,   \* observation: the blocks in the order their lookups completed
    tg_response     \* get_targets: the HTTP response

llm_vars == <<pc, retries, attempt, response, exc, result, raised, log, prompt, image>>
san_vars == <<san_pc, san_text, san_once, san_twice>>
save_vars == <<save_pc, request, writes, write_result, save_response>>
an_vars == <<an_pc, an_request, an_fetch, an_order, an_calls, an_response>>
chat_vars == <<chat_pc, chat_request, chat_calls, chat_response>>
gs_vars == <<gs_pc, gs_lookups, gs_outcome, gs_db, gs_page, db_error, page_error>>
tg_vars == <<tg_pc, tg_children, tg_results, tg_order, tg_response>>
\* what a step of each part leaves alone
llm_frame == <<san_vars, save_vars, an_vars, chat_vars, gs_vars, tg_vars>>
san_frame == <<llm_vars, save_vars, an_vars, chat_vars, gs_vars, tg_vars>>
save_frame == <<llm_vars, san_vars, an_vars, chat_vars, gs_vars, tg_vars>>
\* the handlers that call the completion layer set pc and nothing else of it
an_frame ==
    <<retries, attempt, response, exc, result, raised, log, prompt, image,
      san_vars, save_vars, chat_vars, gs_vars, tg_vars>>
chat_frame ==
    <<retries, attempt, response, exc, result, raised, log, prompt, image,
      san_vars, save_vars, an_vars, tg_vars>>
tg_frame == <<llm_vars, san_vars, save_vars, an_vars, chat_vars, gs_vars>>

\* Python's None where an object (a response, an exception, a dict) is expected
None == [none |-> TRUE]
\* Python's {}
EmptyDict == [k \in {} |-> 0]
\* Python's None as the content of a message (content values are strings)
NoContent == "<None>"

---------------------------------------------------------------------------
(* Bounds of the model *)

\* largest retry budget explored (retries argument and configured default)
MaxRetries == 3
\* most fragments joined into a text given to the sanitizer
MaxFragments == 3
\* most entries in a rich_text / title list of a save request
MaxItems == 2
\* most entries in the session history of a chat request
MaxHistory == 2
\* most child blocks of the root page
MaxBlocks == 3

---------------------------------------------------------------------------
(* The completion provider, as generate_json sees it *)

\* exceptions acompletion can raise: a timeout and a non-timeout failure
TimeoutError == [type |-> "Timeout", msg |-> "Request timed out"]
ProviderError == [type |-> "APIError", msg |-> "provider failure"]
ProviderExceptions == {TimeoutError, ProviderError}

ContentJson == "{\"title\": \"memo\"}"
\* message.content of the first choice: missing, empty, or a JSON text
Contents == {NoContent, "", ContentJson}

UsageDict == [prompt_tokens |-> 3, completion_tokens |-> 2, total_tokens |-> 5]

\* a provider response: its content, whether it has a usage attribute, and
\* whether completion_cost raises on it
Responses ==
    [content : Contents, has_usage : BOOLEAN, cost_raises : BOOLEAN]

CostOf(resp) == 7

---------------------------------------------------------------------------
(* index.py: sanitize_image_data (text is a sequence of characters) *)

\* "![" ... "](data:image/" ... ")"  (line 155)
MdOpen == <<"!", "[">>
MdMid == <<"]", "(", "d", "a", "t", "a", ":", "i", "m", "a", "g", "e", "/">>
MdClose == ")"
\* "<img" ... "src=" quote "data:image/" ... quote ... ">"  (line 157)
ImgOpen == <<"<", "i", "m", "g">>
SrcEq == <<"s", "r", "c", "=">>
DataImage == <<"d", "a", "t", "a", ":", "i", "m", "a", "g", "e", "/">>
Quotes == {"\"", "'"}
TagClose == ">"
\* the marker of line 159, "[" U+753B U+50CF U+9001 U+4FE1 "]"
Marker == <<"[", "U+753B", "U+50CF", "U+9001", "U+4FE1", "]">>
\* what str.strip() removes
Whitespace == {" ", "\n", "\t"}

\* the literal lit occurs in t at index i
StartsAt(t, i, lit) ==
    /\ i >= 1
    /\ i + Len(lit) - 1 <= Len(t)
    /\ \A k \in 1 .. Len(lit) : t[i + k - 1] = lit[k]

\* the least index i in lo..hi with hits[i], 0 if there is none
FirstTrue(hits, lo, hi) ==
    IF \E i \in lo .. hi : hits[i]
    THEN CHOOSE i \in lo .. hi : hits[i] /\ \A j \in lo .. (i - 1) : ~hits[j]
    ELSE 0

\* the greatest index i in lo..hi with hits[i], 0 if there is none
LastTrue(hits, lo, hi) ==
    IF \E i \in lo .. hi : hits[i]
    THEN CHOOSE i \in lo .. hi : hits[i] /\ \A j \in (i + 1) .. hi : ~hits[j]
    ELSE 0

\* line 155: the index where the match of the markdown pattern that starts
\* at s ends, 0 if none starts there. Both .*? are lazy and DOTALL: the
\* first "](data:image/" after "![" and the first ")" after it.
MdMatchEnd(t, s) ==
    IF ~StartsAt(t, s, MdOpen) THEN 0
    ELSE LET j == FirstTrue([i \in (s + 2) .. Len(t) |-> StartsAt(t, i, MdMid)],
                            s + 2, Len(t)) IN
         IF j = 0 THEN 0
         ELSE FirstTrue([k \in (j + Len(MdMid)) .. Len(t) |-> t[k] = MdClose],
                        j + Len(MdMid), Len(t))

\* line 157, for "src=" at p: the index of the closing ">" of the tag, 0 if
\* the rest of the pattern does not match from p. [^"']+ runs to the first
\* quote (at least one character), [^>]* to the first ">".
HtmlTailEnd(t, p) ==
    IF ~(/\ StartsAt(t, p, SrcEq)
         /\ p + 4 <= Len(t) /\ t[p + 4] \in Quotes
         /\ StartsAt(t, p + 5, DataImage))
    THEN 0
    ELSE LET v == p + 5 + Len(DataImage)
             q == FirstTrue([i \in v .. Len(t) |-> t[i] \in Quotes], v, Len(t)) IN
         IF q = 0 \/ q = v THEN 0
         ELSE FirstTrue([r \in (q + 1) .. Len(t) |-> t[r] = TagClose], q + 1, Len(t))

\* line 157: the index where the match of the <img> pattern that starts at
\* s ends, 0 if none starts there. [^>]+ is greedy: the last "src=" from
\* which the rest matches, with at least one character and no ">" before it.
HtmlMatchEnd(t, s) ==
    IF ~StartsAt(t, s, ImgOpen) THEN 0
    ELSE LET gt == FirstTrue([i \in (s + 4) .. Len(t) |-> t[i] = TagClose],
                             s + 4, Len(t))
             hi == IF gt = 0 THEN Len(t) ELSE gt
             p == LastTrue([i \in (s + 5) .. hi |-> HtmlTailEnd(t, i) # 0], s + 5, hi) IN
         IF p = 0 THEN 0 ELSE HtmlTailEnd(t, p)

\* re.sub(pattern, '', t): the leftmost match from pos on is removed and the
\* scan goes on behind it
RECURSIVE ReSubMd(_, _)
ReSubMd(t, pos) ==
    LET s == FirstTrue([i \in pos .. Len(t) |-> MdMatchEnd(t, i) # 0], pos, Len(t)) IN
    IF s = 0 THEN SubSeq(t, pos, Len(t))
    ELSE SubSeq(t, pos, s - 1) \o ReSubMd(t, MdMatchEnd(t, s) + 1)

RECURSIVE ReSubHtml(_, _)
ReSubHtml(t, pos) ==
    LET s == FirstTrue([i \in pos .. Len(t) |-> HtmlMatchEnd(t, i) # 0], pos, Len(t)) IN
    IF s = 0 THEN SubSeq(t, pos, Len(t))
    ELSE SubSeq(t, pos, s - 1) \o ReSubHtml(t, HtmlMatchEnd(t, s) + 1)

\* str.replace(marker, ""), occurrences taken left to right
RECURSIVE ReplaceMarker(_, _)
ReplaceMarker(t, pos) ==
    LET s == FirstTrue([i \in pos .. Len(t) |-> StartsAt(t, i, Marker)], pos, Len(t)) IN
    IF s = 0 THEN SubSeq(t, pos, Len(t))
    ELSE SubSeq(t, pos, s - 1) \o ReplaceMarker(t, s + Len(Marker))

\* str.strip()
Strip(t) ==
    LET kept == [i \in 1 .. Len(t) |-> t[i] \notin Whitespace]
        a == FirstTrue(kept, 1, Len(t))
        b == LastTrue(kept, 1, Len(t)) IN
    IF a = 0 THEN <<>> ELSE SubSeq(t, a, b)

\* lines 145-160
sanitize_image_data(text) ==
    Strip(ReplaceMarker(ReSubHtml(ReSubMd(text, 1), 1), 1))

---------------------------------------------------------------------------
(* Texts the sanitizer is applied to: up to MaxFragments fragments in a row *)

MdImage == MdOpen \o <<"x">> \o MdMid \o <<"p", MdClose>>
HtmlImage == ImgOpen \o <<" ">> \o SrcEq \o <<"'">> \o DataImage \o <<"p", "'", TagClose>>

Fragments ==
    { <<"a">>, <<" ">>, <<"!">>,
      Marker, SubSeq(Marker, 1, 3), SubSeq(Marker, 4, 6),
      MdImage, SubSeq(MdImage, 2, Len(MdImage)),
      HtmlImage, SubSeq(HtmlImage, 1, 4), SubSeq(HtmlImage, 5, Len(HtmlImage)) }

RECURSIVE FragmentTexts(_)
FragmentTexts(n) ==
    IF n = 0 THEN {<<>>}
    ELSE LET shorter == FragmentTexts(n - 1) IN
         shorter \cup {t \o f : t \in shorter, f \in Fragments}

(* The sanitizer applied once and twice to a text *)

SanInit ==
    /\ san_pc = "input"
    /\ san_text \in FragmentTexts(MaxFragments)
    /\ san_once = <<>>
    /\ san_twice = <<>>

SanApplyOnce ==
    /\ san_pc = "input"
    /\ san_once' = sanitize_image_data(san_text)
    /\ san_pc' = "once"
    /\ UNCHANGED <<san_text, san_twice>>
    /\ UNCHANGED san_frame

SanApplyTwice ==
    /\ san_pc = "once"
    /\ san_twice' = sanitize_image_data(san_once)
    /\ san_pc' = "twice"
    /\ UNCHANGED <<san_text, san_once>>
    /\ UNCHANGED san_frame

SanIdle ==
    /\ san_pc = "idle" /\ san_text = <<>> /\ san_once = <<>> /\ san_twice = <<>>

---------------------------------------------------------------------------
(* index.py: save *)

\* line 762: the ceiling on the content appended to a page
PageContentLimit == 100000
\* lines 794-798: the size of a rich_text / title segment
RichTextLimit == 2000

\* line 749
NoContentText == <<"N", "o", " ", "c", "o", "n", "t", "e", "n", "t">>
\* line 764: "\n...(Truncated)..."
TruncationMarker ==
    <<"\n", ".", ".", ".", "(", "T", "r", "u", "n", "c", "a", "t", "e", "d",
      ")", ".", ".", ".">>

\* Python's t[i:j] for 0 <= i <= j
Slice(t, i, j) == SubSeq(t, i + 1, IF j < Len(t) THEN j ELSE Len(t))

\* lines 749-754: the content of a page request. request.text is <<>> for
\* None and <<t>> for the string t; a "Content" property with a rich_text
\* list takes precedence.
PageContent(req) ==
    LET base == IF req.text = <<>> \/ req.text[1] = <<>>
                THEN NoContentText ELSE req.text[1] IN
    IF "Content" \in DOMAIN req.properties
       /\ "rich_text" \in DOMAIN req.properties["Content"]
    THEN req.properties["Content"].rich_text[1].text.content
    ELSE base

\* line 754 raises (IndexError on an empty list, KeyError on an entry
\* without "text" or without "content")
PageContentRaises(req) ==
    /\ "Content" \in DOMAIN req.properties
    /\ "rich_text" \in DOMAIN req.properties["Content"]
    /\ LET rt == req.properties["Content"].rich_text IN
          \/ rt = <<>>
          \/ "text" \notin DOMAIN rt[1]
          \/ "content" \notin DOMAIN rt[1].text

\* a faulty variant: content of exactly the ceiling is truncated too
Truncate_AtLimit(content) ==
    IF Len(content) >= PageContentLimit
    THEN Slice(content, 0, PageContentLimit) \o TruncationMarker
    ELSE content

\* lines 762-764
Truncate(content) ==
    IF Len(content) > PageContentLimit
    THEN Slice(content, 0, PageContentLimit) \o TruncationMarker
    ELSE content

\* lines 757-764: what the page path hands to append_block
PageWriteContent(req) == Truncate(sanitize_image_data(PageContent(req)))

\* lines 777-780 (the contents of the model are strings)
sanitize_val(val) == sanitize_image_data(val)

\* the number of values of range(0, n, step)
RangeLen(n, step) == (n + step - 1) \div step

\* a faulty variant: the last, shorter slice is left out
ChunkItem_DropsTail(item) ==
    IF "text" \in DOMAIN item
    THEN LET content == sanitize_val(item.text.content) IN
         IF Len(content) > RichTextLimit
         THEN [k \in 1 .. (Len(content) \div RichTextLimit) |->
                  [item EXCEPT !.text.content =
                      Slice(content, (k - 1) * RichTextLimit, k * RichTextLimit)]]
         ELSE <<[item EXCEPT !.text.content = content]>>
    ELSE <<item>>

\* lines 791-804 (and 811-823): one entry of a rich_text / title list
ChunkItem(item) ==
    IF "text" \in DOMAIN item
    THEN LET content == sanitize_val(item.text.content) IN
         IF Len(content) > RichTextLimit
         THEN [k \in 1 .. RangeLen(Len(content), RichTextLimit) |->
                  [item EXCEPT !.text.content =
                      Slice(content, (k - 1) * RichTextLimit, k * RichTextLimit)]]
         ELSE <<[item EXCEPT !.text.content = content]>>
    ELSE <<item>>

\* a faulty variant: the segments of later entries come first
RECURSIVE ChunkList_LaterFirst(_)
ChunkList_LaterFirst(items) ==
    IF items = <<>> THEN <<>>
    ELSE ChunkList_LaterFirst(Tail(items)) \o ChunkItem(Head(items))

\* lines 789-805 (and 809-824): the new list, entry by entry
RECURSIVE ChunkList(_)
ChunkList(items) ==
    IF items = <<>> THEN <<>>
    ELSE ChunkItem(Head(items)) \o ChunkList(Tail(items))

\* lines 786-824: one property value (a dict)
SanitizeProperty(val) ==
    LET v1 == IF "rich_text" \in DOMAIN val /\ val.rich_text # <<>>
              THEN [val EXCEPT !.rich_text = ChunkList(@)] ELSE val
    IN  IF "title" \in DOMAIN v1 /\ v1.title # <<>>
        THEN [v1 EXCEPT !.title = ChunkList(@)] ELSE v1

\* lines 775-824: the properties handed to create_page
SanitizeProperties(props) ==
    [key \in DOMAIN props |-> SanitizeProperty(props[key])]

\* lines 792 / 812 raise KeyError: an entry whose "text" has no "content"
ItemRaises(item) == "text" \in DOMAIN item /\ "content" \notin DOMAIN item.text

DatabaseRaises(req) ==
    \E key \in DOMAIN req.properties :
        LET val == req.properties[key] IN
        \/ "rich_text" \in DOMAIN val
           /\ \E i \in 1 .. Len(val.rich_text) : ItemRaises(val.rich_text[i])
        \/ "title" \in DOMAIN val
           /\ \E i \in 1 .. Len(val.title) : ItemRaises(val.title[i])

\* line 832
SaveError == [status |-> 500, detail |-> "Failed to save to Notion"]
\* lines 770 and 828
SaveSuccess(url) == [status |-> 200, body |-> [status |-> "success", url |-> url]]

(* The requests given to save. A text of a request is written down as
   [pre, pad]: the characters pre followed by pad characters "a". *)

\* the text of n characters "a"
Pad(n) == <<>> \o [i \in 1 .. n |-> "a"]

TextSpec(pre, n) == [pre |-> pre, pad |-> n]
\* the text a [pre, pad] stands for
Text(d) == d.pre \o Pad(d.pad)

TextItem(t) == [type |-> "text", text |-> [content |-> t, link |-> "None"]]
MentionItem == [type |-> "mention", mention |-> "user"]
BrokenItem == [type |-> "text", text |-> [link |-> "None"]]

\* texts around the segment size
ShortTexts ==
    { TextSpec(<<>>, 0), TextSpec(Marker, 0), TextSpec(<<>>, 1),
      TextSpec(<<>>, RichTextLimit), TextSpec(<<" ">>, RichTextLimit + 1),
      TextSpec(Marker, 2 * RichTextLimit + 500) }
\* texts around the page ceiling
LongTexts ==
    { TextSpec(Marker, PageContentLimit), TextSpec(<<" ">>, PageContentLimit + 1),
      TextSpec(<<>>, PageContentLimit + 50000) }
\* a text over the page ceiling, for a database request
LongFieldText == TextSpec(Marker, PageContentLimit + 1)

RECURSIVE ListsOver(_, _)
ListsOver(S, n) ==
    IF n = 0 THEN {<<>>}
    ELSE LET shorter == ListsOver(S, n - 1) IN
         shorter \cup {Append(l, x) : l \in shorter, x \in S}

ShortItems == {TextItem(t) : t \in ShortTexts} \cup {MentionItem, BrokenItem}
SelectProperty == [select |-> [name |-> "memo"]]

PageRequests ==
    {[target_db_id |-> "target-id", target_type |-> "page", text |-> tx, properties |-> EmptyDict] :
        tx \in {<<>>} \cup {<<t>> : t \in ShortTexts \cup LongTexts}}
    \cup
    {[target_db_id |-> "target-id", target_type |-> "page", text |-> <<TextSpec(<<>>, 1)>>, properties |-> pr] :
        pr \in {[Content |-> [rich_text |-> l]] :
                   l \in { <<>>, <<MentionItem>>, <<BrokenItem>>,
                           <<TextItem(TextSpec(<<>>, 2)), TextItem(TextSpec(<<>>, 3))>>,
                           <<TextItem(TextSpec(<<>>, PageContentLimit + 1))>> }}
               \cup {[Content |-> SelectProperty], [Tag |-> SelectProperty]}}

DatabaseRequests ==
    {[target_db_id |-> "target-id", target_type |-> "database", text |-> <<>>,
      properties |-> [Name |-> [title |-> l1], Body |-> [rich_text |-> l2],
                      Tag |-> SelectProperty]] :
        l1 \in {<<>>, <<TextItem(TextSpec(<<>>, 1))>>},
        l2 \in ListsOver(ShortItems, MaxItems)}
    \cup
    {[target_db_id |-> "target-id", target_type |-> "database", text |-> <<>>,
      properties |-> [Name |-> [title |-> l1]]] :
        l1 \in ListsOver(ShortItems, MaxItems)}
    \cup
    {[target_db_id |-> "target-id", target_type |-> "database", text |-> <<>>,
      properties |-> [Body |-> [rich_text |-> l2]]] :
        l2 \in {<<TextItem(LongFieldText)>>,
                <<TextItem(TextSpec(<<>>, 1)), TextItem(LongFieldText)>>}}

\* target_type is an optional string: a request that names neither kind
OtherTypeRequests ==
    {[target_db_id |-> "target-id", target_type |-> ty, text |-> <<TextSpec(<<>>, 1)>>,
      properties |-> [Name |-> [title |-> <<TextItem(TextSpec(<<>>, 1))>>]]] :
        ty \in {"<None>", "block"}}

SaveRequests == PageRequests \cup DatabaseRequests \cup OtherTypeRequests

\* the request a written-down request stands for: every text spelled out
TextFields == {"title", "rich_text"}

ItemOf(it) ==
    IF "text" \in DOMAIN it /\ "content" \in DOMAIN it.text
    THEN [it EXCEPT !.text.content = Text(@)] ELSE it

RECURSIVE ItemsOf(_)
ItemsOf(l) == IF l = <<>> THEN <<>> ELSE <<ItemOf(Head(l))>> \o ItemsOf(Tail(l))

PropertyOf(val) ==
    [f \in DOMAIN val |-> IF f \in TextFields THEN ItemsOf(val[f]) ELSE val[f]]

RequestOf(d) ==
    [target_db_id |-> d.target_db_id,
     target_type |-> d.target_type,
     text |-> IF d.text = <<>> THEN <<>> ELSE <<Text(d.text[1])>>,
     properties |-> [key \in DOMAIN d.properties |-> PropertyOf(d.properties[key])]]

\* a faulty variant: only 'database' creates, every other type appends
WriteOp_AppendUnlessDatabase(req) ==
    IF req.target_type = "database" THEN "create_page" ELSE "append_block"

\* lines 747 and 771: the external write a request leads to
WriteOp(req) ==
    IF req.target_type = "page" THEN "append_block" ELSE "create_page"

\* how an external write ends: append_block returns a truth value,
\* create_page a url, either may raise
Returned(value) == [outcome |-> "returned", value |-> value]
WriteRaised == [outcome |-> "raised"]

\* a faulty variant: a falsy result of append_block is an error
AppendBlockResponse_Checked(success) ==
    IF success THEN SaveSuccess("") ELSE SaveError

\* lines 766-770: the response after append_block returned success
AppendBlockResponse(success) == SaveSuccess("")

SaveInit ==
    /\ save_pc = "idle"
    /\ request = None
    /\ writes = <<>>
    /\ write_result = None
    /\ save_response = None

\* lines 746-766: a page request, up to the call of append_block
SavePage ==
    /\ save_pc = "idle"
    /\ \E d \in SaveRequests : LET req == RequestOf(d) IN
          /\ WriteOp(req) = "append_block"
          /\ request' = d
          /\ IF PageContentRaises(req)
             THEN /\ save_response' = SaveError
                  /\ save_pc' = "done"
                  /\ UNCHANGED writes
             ELSE /\ writes' = Append(writes, [op |-> "append_block",
                                               target_db_id |-> req.target_db_id,
                                               content |-> PageWriteContent(req)])
                  /\ save_pc' = "append_block"
                  /\ UNCHANGED save_response
    /\ UNCHANGED write_result
    /\ UNCHANGED save_frame

\* lines 771-827: a database request, up to the call of create_page
SaveDatabase ==
    /\ save_pc = "idle"
    /\ \E d \in SaveRequests : LET req == RequestOf(d) IN
          /\ WriteOp(req) = "create_page"
          /\ request' = d
          /\ IF DatabaseRaises(req)
             THEN /\ save_response' = SaveError
                  /\ save_pc' = "done"
                  /\ UNCHANGED writes
             ELSE /\ writes' = Append(writes, [op |-> "create_page",
                                  target_db_id |-> req.target_db_id,
                                  properties |-> SanitizeProperties(req.properties)])
                  /\ save_pc' = "create_page"
                  /\ UNCHANGED save_response
    /\ UNCHANGED write_result
    /\ UNCHANGED save_frame

\* lines 766-770: append_block returns a truthy or a falsy result
AppendBlockReturns ==
    /\ save_pc = "append_block"
    /\ \E success \in BOOLEAN :
          /\ write_result' = Returned(success)
          /\ save_response' = AppendBlockResponse(success)
    /\ save_pc' = "done"
    /\ UNCHANGED <<request, writes>>
    /\ UNCHANGED save_frame

\* lines 827-828: create_page returns the url of the new page
CreatePageReturns ==
    /\ save_pc = "create_page"
    /\ write_result' = Returned("https://notion.so/new")
    /\ save_response' = SaveSuccess(write_result'.value)
    /\ save_pc' = "done"
    /\ UNCHANGED <<request, writes>>
    /\ UNCHANGED save_frame

\* lines 829-832: the external write raises
WriteRaises ==
    /\ save_pc \in {"append_block", "create_page"}
    /\ write_result' = WriteRaised
    /\ save_response' = SaveError
    /\ save_pc' = "done"
    /\ UNCHANGED <<request, writes>>
    /\ UNCHANGED save_frame

save ==
    \/ SavePage
    \/ SaveDatabase
    \/ AppendBlockReturns
    \/ CreatePageReturns
    \/ WriteRaises

---------------------------------------------------------------------------
(* llm_client.py: generate_json *)

\* integer values of the retries argument (it may also be None)
RetriesArgs == -1 .. MaxRetries
\* values of LITELLM_MAX_RETRIES
ConfigRetries == 0 .. MaxRetries

\* range(retries + 1) is not empty
LoopRuns(r) == r + 1 > 0

\* a faulty variant: the delay counted from the attempt index, not attempt + 1
BackoffDelay_NoEscalation(a) == 2 * a

\* the delay of line 103
BackoffDelay(a) == 2 * (a + 1)

\* a faulty variant: only a missing content is rejected, "" is let through
ContentEmpty_OnlyNone(c) == c = NoContent

\* `not content` of line 75
ContentEmpty(c) == c = NoContent \/ c = ""

\* line 79
ExtractUsage(resp) == IF resp.has_usage THEN UsageDict ELSE EmptyDict

\* lines 80-86
ExtractCost(resp) == IF resp.cost_raises THEN 0 ELSE CostOf(resp)

\* line 99: the error that leaves generate_json; raised inside the except
\* block, so Python keeps the caught exception as its context
FinalError(e) ==
    [type |-> "RuntimeError", msg |-> <<"AI generation failed: ", e.msg>>,
     context |-> e]

\* a faulty variant: the budget counts as used up one attempt early
Exhausted_OneEarly(a, r) == a >= r - 1

\* line 96
Exhausted(a, r) == a = r

(* The prompt argument. A Python value that may be a str or a list is
   written [str |-> s] or [list |-> l]; a dict is a record. *)
PyStr(s) == [str |-> s]
PyList(l) == [list |-> l]
\* isinstance(v, list)
IsList(v) == "list" \in DOMAIN v

\* lines 118-123
prepare_multimodal_prompt(text, image_data, image_mime_type) ==
    LET image_url == "data:" \o image_mime_type \o ";base64," \o image_data IN
    PyList(<<[type |-> "text", text |-> text],
             [type |-> "image_url", image_url |-> [url |-> image_url]]>>)

\* line 54, for a list: it is not empty and its first element has 'role'
IsMessageList(l) == Len(l) > 0 /\ "role" \in DOMAIN l[1]

\* a faulty variant: every list is taken for a message list
PrepareMessages_ListAsMessages(p) ==
    IF IsList(p) THEN p.list ELSE <<[role |-> "user", content |-> p]>>

\* lines 52-62: the messages handed to acompletion
PrepareMessages(p) ==
    IF IsList(p)
    THEN IF IsMessageList(p.list) THEN p.list
         ELSE <<[role |-> "user", content |-> p]>>
    ELSE <<[role |-> "user", content |-> p]>>


SystemMessage == [role |-> "system", content |-> PyStr("Current Time: now")]
UserMessage == [role |-> "user", content |-> PyStr("task")]
UserImageMessage ==
    [role |-> "user", content |-> prepare_multimodal_prompt("task", "QUJD", "image/png")]
TextPart == [type |-> "text", text |-> "task"]

\* prompts given to generate_json directly: strings, message lists, lists
\* without 'role' in their first element, the empty list
Prompts ==
    { PyStr("task"), PyStr(""),
      PyList(<<SystemMessage, UserMessage>>),
      PyList(<<SystemMessage, UserMessage, SystemMessage, UserImageMessage>>),
      PyList(<<UserMessage, TextPart>>),
      PyList(<<TextPart>>),
      PyList(<<TextPart, UserMessage>>),
      PyList(<<>>) }

LlmInit ==
    /\ pc = "idle"
    /\ retries = 0
    /\ attempt = 0
    /\ response = None
    /\ exc = None
    /\ result = None
    /\ raised = None
    /\ log = <<>>
    /\ prompt = None
    /\ image = None

\* lines 46-49: with the prompt p, resolve the budget and enter the loop
\* (or fall off its end)
Enter(p) ==
    /\ prompt' = p
    /\ \E is_none \in BOOLEAN, r \in RetriesArgs, d \in ConfigRetries :
          LET eff == IF is_none THEN d ELSE r IN
          /\ retries' = eff
          /\ pc' = IF LoopRuns(eff) THEN "try" ELSE "fell_through"
    /\ attempt' = 0
    /\ UNCHANGED <<response, exc, result, raised, log>>

\* generate_json is called with a prompt, or with the parts list that
\* prepare_multimodal_prompt made of a text and an image
GenStart ==
    /\ pc = "idle"
    /\ \/ \E p \in Prompts : Enter(p) /\ image' = None
       \/ \E t \in {"task", ""}, d \in {"QUJD"},
             m \in {"image/png", "image/jpeg"} :
             /\ image' = [text |-> t, image_data |-> d, image_mime_type |-> m]
             /\ Enter(prepare_multimodal_prompt(t, d, m))
    /\ UNCHANGED llm_frame

\* lines 66-71: the provider call raises
AcompletionRaises ==
    /\ pc = "try"
    /\ \E e \in ProviderExceptions :
          /\ exc' = e
          /\ log' = log \o <<[ev |-> "call", attempt |-> attempt, outcome |-> e.type,
                              messages |-> PrepareMessages(prompt)],
                             [ev |-> "fail", attempt |-> attempt, cause |-> e.type]>>
    /\ pc' = "except"
    /\ response' = None
    /\ UNCHANGED <<retries, attempt, result, raised>>
    /\ UNCHANGED <<prompt, image>>
    /\ UNCHANGED llm_frame

\* lines 66-71: the provider call returns a response
AcompletionReturns ==
    /\ pc = "try"
    /\ \E resp \in Responses :
          /\ response' = resp
          /\ log' = Append(log, [ev |-> "call", attempt |-> attempt,
                                 outcome |-> IF ContentEmpty(resp.content)
                                             THEN "empty" ELSE "content",
                                 messages |-> PrepareMessages(prompt)])
    /\ pc' = "respond"
    /\ UNCHANGED <<retries, attempt, exc, result, raised>>
    /\ UNCHANGED <<prompt, image>>
    /\ UNCHANGED llm_frame

\* lines 74-76: empty content is raised as an error inside the try block
RespondEmpty ==
    /\ pc = "respond"
    /\ ContentEmpty(response.content)
    /\ exc' = [type |-> "RuntimeError", msg |-> "Empty AI response"]
    /\ log' = Append(log, [ev |-> "fail", attempt |-> attempt, cause |-> "empty"])
    /\ pc' = "except"
    /\ UNCHANGED <<retries, attempt, response, result, raised>>
    /\ UNCHANGED <<prompt, image>>
    /\ UNCHANGED llm_frame

\* lines 74-93: content, usage and cost are extracted and returned
RespondReturn ==
    /\ pc = "respond"
    /\ ~ContentEmpty(response.content)
    /\ result' = [content |-> response.content,
                  usage |-> ExtractUsage(response),
                  cost |-> ExtractCost(response),
                  model |-> "model"]
    /\ pc' = "returned"
    /\ UNCHANGED <<retries, attempt, response, exc, raised, log>>
    /\ UNCHANGED <<prompt, image>>
    /\ UNCHANGED llm_frame

\* lines 95-99: the budget is used up, the error is re-raised wrapped
ExceptRaise ==
    /\ pc = "except"
    /\ Exhausted(attempt, retries)
    /\ raised' = FinalError(exc)
    /\ pc' = "raised"
    /\ UNCHANGED <<retries, attempt, response, exc, result, log>>
    /\ UNCHANGED <<prompt, image>>
    /\ UNCHANGED llm_frame

\* lines 95-103: otherwise sleep before the next attempt
ExceptSleep ==
    /\ pc = "except"
    /\ ~Exhausted(attempt, retries)
    /\ log' = Append(log, [ev |-> "sleep", attempt |-> attempt,
                           secs |-> BackoffDelay(attempt)])
    /\ pc' = "sleep"
    /\ UNCHANGED <<retries, attempt, response, exc, result, raised>>
    /\ UNCHANGED <<prompt, image>>
    /\ UNCHANGED llm_frame

\* line 103 returns; line 49 takes the next value of range(retries + 1)
SleepDone ==
    /\ pc = "sleep"
    /\ attempt' = attempt + 1
    /\ pc' = "try"
    /\ UNCHANGED <<retries, response, exc, result, raised, log>>
    /\ UNCHANGED <<prompt, image>>
    /\ UNCHANGED llm_frame

\* the message list the completion layer makes of its arguments (spec 4.1)
LayerPrompts == {PyList(<<SystemMessage, UserMessage>>)}

\* analyze_text_with_ai / chat_analyze_text_with_ai, called by a handler,
\* calls generate_json with the message list it built (spec 4.4)
CompletionLayerCalls ==
    /\ pc = "layer"
    /\ \E p \in LayerPrompts : Enter(p)
    /\ UNCHANGED image
    /\ UNCHANGED llm_frame

\* the steps of a call that has started
generate_json_steps ==
    \/ AcompletionRaises
    \/ AcompletionReturns
    \/ RespondEmpty
    \/ RespondReturn
    \/ ExceptRaise
    \/ ExceptSleep
    \/ SleepDone

generate_json ==
    \/ GenStart
    \/ AcompletionRaises
    \/ AcompletionReturns
    \/ RespondEmpty
    \/ RespondReturn
    \/ ExceptRaise
    \/ ExceptSleep
    \/ SleepDone

---------------------------------------------------------------------------
(* The handlers that call the completion layer. analyze_text_with_ai and
   chat_analyze_text_with_ai build the prompt, call generate_json
   (CompletionLayerCalls) and hand its result, or the error it raised, back
   to the handler. *)

\* generate_json has not been called
LlmNotCalled ==
    /\ pc = "not_called"
    /\ retries = 0
    /\ attempt = 0
    /\ response = None
    /\ exc = None
    /\ result = None
    /\ raised = None
    /\ log = <<>>
    /\ prompt = None
    /\ image = None

\* how an awaited call of the external store stands
Pending == [outcome |-> "pending"]
Raised(e) == [outcome |-> "raised", exc |-> e]

\* an error of the external store
FetchError == [type |-> "HTTPStatusError", msg |-> "store failure"]
\* get_db_schema: the property definitions of a database
DbSchema == [Name |-> [type |-> "title"], Tag |-> [type |-> "select"]]
\* fetch_recent_pages: the latest pages of a database, none for an empty one
RecentPages == {<<>>, <<[Name |-> "memo"]>>}

\* lines 578 and 673, with a value of get_current_jst_str()
WithTime(system_prompt) ==
    "Current Time: " \o "2025-01-01 09:00 JST" \o "\n\n" \o system_prompt

---------------------------------------------------------------------------
(* index.py: analyze *)

AnalyzeRequests ==
    {[text |-> "buy milk", target_db_id |-> "target-id",
      system_prompt |-> sp, model |-> "None"] : sp \in {"", "custom"}}

\* the two coroutines given to asyncio.gather, by the name of their result
Fetches == {"schema", "recent_examples"}
\* what each can return
FetchValues(f) == IF f = "schema" THEN {DbSchema} ELSE RecentPages
\* lines 559 and 562
FetchDefault(f) == IF f = "schema" THEN EmptyDict ELSE <<>>

\* gather has both results
Joined(fetch) == \A f \in Fetches : fetch[f] # Pending

\* a faulty variant: one failed fetch discards the result of the other too
Gathered_AllOrNothing(fetch, f) ==
    IF \E g \in Fetches : fetch[g].outcome = "raised"
    THEN FetchDefault(f) ELSE fetch[f].value

\* lines 552-562: results[i], or the default if it is an exception
Gathered(fetch, f) ==
    IF fetch[f].outcome = "raised" THEN FetchDefault(f) ELSE fetch[f].value

\* lines 571-573
AnalyzeSystemPrompt(req) ==
    IF req.system_prompt = "" THEN "You are a helpful assistant."
    ELSE req.system_prompt

\* lines 592-619
AnalyzeError(e) ==
    IF e.type = "ReadTimeout"
    THEN [status |-> 504, detail |-> [error |-> "Notion API Timeout"]]
    ELSE [status |-> 500, detail |-> [error |-> "AI analysis failed",
                                      message |-> e.msg, type |-> e.type]]

AnalyzeInit ==
    /\ an_pc = "idle"
    /\ an_request = None
    /\ an_fetch = [f \in Fetches |-> Pending]
    /\ an_order = <<>>
    /\ an_calls = <<>>
    /\ an_response = None

\* lines 539-550: both fetches are started and awaited together
AnalyzeStart ==
    /\ an_pc = "idle" /\ chat_pc = "idle"
    /\ \E req \in AnalyzeRequests : an_request' = req
    /\ an_pc' = "gather"
    /\ UNCHANGED <<an_fetch, an_order, an_calls, an_response, pc>>
    /\ UNCHANGED an_frame

\* get_db_schema / fetch_recent_pages returns
FetchReturns ==
    /\ an_pc = "gather"
    /\ \E f \in Fetches : \E v \in FetchValues(f) :
          /\ an_fetch[f] = Pending
          /\ an_fetch' = [an_fetch EXCEPT ![f] = Returned(v)]
          /\ an_order' = Append(an_order, f)
    /\ UNCHANGED <<an_pc, an_request, an_calls, an_response, pc>>
    /\ UNCHANGED an_frame

\* get_db_schema / fetch_recent_pages raises; gather keeps the exception as
\* the result (return_exceptions=True) and goes on waiting for the other
FetchRaises ==
    /\ an_pc = "gather"
    /\ \E f \in Fetches :
          /\ an_fetch[f] = Pending
          /\ an_fetch' = [an_fetch EXCEPT ![f] = Raised(FetchError)]
          /\ an_order' = Append(an_order, f)
    /\ UNCHANGED <<an_pc, an_request, an_calls, an_response, pc>>
    /\ UNCHANGED an_frame

\* lines 552-589: gather returns, the defaults are filled in and
\* analyze_text_with_ai is called
AnalyzeCallsAi ==
    /\ an_pc = "gather"
    /\ Joined(an_fetch)
    /\ an_calls' = Append(an_calls,
          [text |-> an_request.text,
           schema |-> Gathered(an_fetch, "schema"),
           recent_examples |-> Gathered(an_fetch, "recent_examples"),
           system_prompt |-> WithTime(AnalyzeSystemPrompt(an_request)),
           model |-> an_request.model])
    /\ an_pc' = "completion"
    /\ pc' = "layer"
    /\ UNCHANGED <<an_request, an_fetch, an_order, an_response>>
    /\ UNCHANGED an_frame

\* line 591: the result of the completion layer is the response
AnalyzeReturns ==
    /\ an_pc = "completion"
    /\ pc \in {"returned", "fell_through"}
    /\ an_response' = [status |-> 200, body |-> result]
    /\ an_pc' = "done"
    /\ UNCHANGED <<an_request, an_fetch, an_order, an_calls, pc>>
    /\ UNCHANGED an_frame

\* lines 592-619: the error of the completion layer becomes an HTTP error
AnalyzeRaises ==
    /\ an_pc = "completion"
    /\ pc = "raised"
    /\ an_response' = AnalyzeError(raised)
    /\ an_pc' = "done"
    /\ UNCHANGED <<an_request, an_fetch, an_order, an_calls, pc>>
    /\ UNCHANGED an_frame

analyze ==
    \/ AnalyzeStart
    \/ FetchReturns
    \/ FetchRaises
    \/ AnalyzeCallsAi
    \/ AnalyzeReturns
    \/ AnalyzeRaises

---------------------------------------------------------------------------
(* index.py: get_schema, as chat_endpoint calls it *)

\* lines 498-504: the fixed schema of a page
PageSchema == [Title |-> [type |-> "title"], Content |-> [type |-> "rich_text"]]
\* get_page_info: the page, <<>> for None
PageInfos == {<<>>, <<[id |-> "target-id", properties |-> EmptyDict]>>}
\* what get_db_schema raises: a ValueError for a target that is no
\* database, or another error; str() of a timeout is empty
DbLookupErrors ==
    {[type |-> "ValueError", msg |-> "not a database"],
     [type |-> "ReadTimeout", msg |-> ""]}
\* what get_page_info raises
PageLookupErrors == {FetchError, [type |-> "ReadTimeout", msg |-> ""]}

\* lines 520-521: `error or "Unknown"`
OrUnknown(error) ==
    IF error = <<>> \/ error[1] = "" THEN "Unknown" ELSE error[1]

\* a faulty variant: only the page lookup's failure is reported
SchemaNotFound_PageOnly(dbe, pge) ==
    [type |-> "HTTPException", status |-> 404, msg |-> "404: Schema fetch failed",
     detail |-> [error |-> "Schema fetch failed", target_id |-> "target-id",
                 attempted |-> <<"database", "page">>,
                 database_error |-> "Unknown",
                 page_error |-> OrUnknown(pge)]]

\* lines 514-528
SchemaNotFound(dbe, pge) ==
    [type |-> "HTTPException", status |-> 404, msg |-> "404: Schema fetch failed",
     detail |-> [error |-> "Schema fetch failed", target_id |-> "target-id",
                 attempted |-> <<"database", "page">>,
                 database_error |-> OrUnknown(dbe),
                 page_error |-> OrUnknown(pge)]]

GetSchemaInit ==
    /\ gs_pc = "idle"
    /\ gs_lookups = <<>>
    /\ gs_outcome = Pending
    /\ gs_db = Pending
    /\ gs_page = Pending
    /\ db_error = <<>>
    /\ page_error = <<>>

\* lines 480-485: the database lookup succeeds
GetDbSchemaReturns ==
    /\ gs_pc = "database"
    /\ gs_lookups' = Append(gs_lookups, "database")
    /\ gs_db' = Returned(DbSchema)
    /\ gs_outcome' = Returned([type |-> "database", schema |-> DbSchema])
    /\ gs_pc' = "returned"
    /\ UNCHANGED <<gs_page, db_error, page_error, chat_vars, pc>>
    /\ UNCHANGED chat_frame

\* lines 486-491: the database lookup raises (a ValueError for a target
\* that is not a database, or any other error), the page lookup is next
GetDbSchemaRaises ==
    /\ gs_pc = "database"
    /\ gs_lookups' = Append(gs_lookups, "database")
    /\ \E e \in DbLookupErrors :
          /\ gs_db' = Raised(e)
          /\ db_error' = <<e.msg>>
    /\ gs_pc' = "page"
    /\ UNCHANGED <<gs_outcome, gs_page, page_error, chat_vars, pc>>
    /\ UNCHANGED chat_frame

\* lines 494-507 and 513-528: the page lookup returns a page or None
GetPageInfoReturns ==
    /\ gs_pc = "page"
    /\ gs_lookups' = Append(gs_lookups, "page")
    /\ \E page \in PageInfos :
          /\ gs_page' = Returned(page)
          /\ IF page # <<>>
             THEN /\ gs_outcome' = Returned([type |-> "page", schema |-> PageSchema])
                  /\ gs_pc' = "returned"
                  /\ UNCHANGED page_error
             ELSE /\ page_error' =
                        <<"Target target-id not found as Page (returned None)">>
                  /\ gs_outcome' = Raised(SchemaNotFound(db_error, page_error'))
                  /\ gs_pc' = "raised"
    /\ UNCHANGED <<gs_db, db_error, chat_vars, pc>>
    /\ UNCHANGED chat_frame

\* lines 508-528: the page lookup raises
GetPageInfoRaises ==
    /\ gs_pc = "page"
    /\ gs_lookups' = Append(gs_lookups, "page")
    /\ \E e \in PageLookupErrors :
          /\ gs_page' = Raised(e)
          /\ page_error' = <<e.msg>>
    /\ gs_outcome' = Raised(SchemaNotFound(db_error, page_error'))
    /\ gs_pc' = "raised"
    /\ UNCHANGED <<gs_db, db_error, chat_vars, pc>>
    /\ UNCHANGED chat_frame

get_schema ==
    \/ GetDbSchemaReturns
    \/ GetDbSchemaRaises
    \/ GetPageInfoReturns
    \/ GetPageInfoRaises

---------------------------------------------------------------------------
(* index.py: chat_endpoint. An optional field of the request is <<>> for
   None and <<v>> for the value v. *)

\* `if x` for an optional string
Truthy(opt) == opt # <<>> /\ opt[1] # ""

\* the entries of a conversation, all different
HistoryEntry(i) ==
    [role |-> IF i % 2 = 1 THEN "user" ELSE "assistant",
     content |-> "turn " \o ToString(i)]
History(n) == <<>> \o [i \in 1 .. n |-> HistoryEntry(i)]

ChatRequests ==
    {[text |-> "task", target_id |-> "target-id", system_prompt |-> sp,
      session_history |-> h, reference_context |-> c,
      image_data |-> <<>>, image_mime_type |-> <<>>, model |-> <<>>] :
        sp \in {<<>>, <<"custom">>},
        h \in {<<>>} \cup {<<History(n)>> : n \in 0 .. MaxHistory},
        c \in {<<>>, <<"">>, <<"page text">>}}

\* lines 660-669
ChatSystemPrompt(req) ==
    IF Truthy(req.system_prompt) THEN req.system_prompt[1] ELSE "default persona"

\* a faulty variant: the reference context is put after the history
SessionHistory_ContextLast(req) ==
    LET session_history == IF req.session_history = <<>> THEN <<>>
                           ELSE req.session_history[1] IN
    IF Truthy(req.reference_context)
    THEN Append(session_history,
                [role |-> "system", content |-> req.reference_context[1]])
    ELSE session_history

\* lines 677-681: the history handed to the completion layer
SessionHistory(req) ==
    LET session_history == IF req.session_history = <<>> THEN <<>>
                           ELSE req.session_history[1] IN
    IF Truthy(req.reference_context)
    THEN <<[role |-> "system", content |-> req.reference_context[1]]>>
         \o session_history
    ELSE session_history

\* a faulty variant: the error of get_schema goes to the caller as it is
SchemaFetchFailed_AsRaised(e) ==
    [status |-> e.status, detail |-> [error |-> "Schema fetch failed", message |-> e.msg]]

\* lines 644-657
SchemaFetchFailed(e) ==
    [status |-> 400, detail |-> [error |-> "Schema fetch failed", message |-> e.msg]]

\* lines 698-722
ChatError(e) ==
    IF e.type = "ReadTimeout"
    THEN [status |-> 504, detail |-> [error |-> "Notion API Timeout",
                                      type |-> "ReadTimeout"]]
    ELSE [status |-> 500, detail |-> [error |-> "Chat AI failed",
                                      message |-> e.msg, type |-> e.type]]

\* line 696 on a result that is None
NoneHasNoGet ==
    [type |-> "AttributeError", msg |-> "'NoneType' object has no attribute 'get'"]

ChatInit ==
    /\ chat_pc = "idle"
    /\ chat_request = None
    /\ chat_calls = <<>>
    /\ chat_response = None

\* lines 629-640: get_schema is called
ChatStart ==
    /\ chat_pc = "idle" /\ an_pc = "idle"
    /\ \E req \in ChatRequests : chat_request' = req
    /\ chat_pc' = "get_schema"
    /\ gs_pc' = "database"
    /\ UNCHANGED <<chat_calls, chat_response, gs_lookups, gs_outcome, gs_db,
                   gs_page, db_error, page_error, pc>>
    /\ UNCHANGED chat_frame

\* lines 644-657 and 723-724: get_schema raised
ChatSchemaFailed ==
    /\ chat_pc = "get_schema"
    /\ gs_pc = "raised"
    /\ chat_response' = SchemaFetchFailed(gs_outcome.exc)
    /\ chat_pc' = "done"
    /\ UNCHANGED <<chat_request, chat_calls, gs_vars, pc>>
    /\ UNCHANGED chat_frame

\* lines 641-695: get_schema returned, chat_analyze_text_with_ai is called
ChatCallsAi ==
    /\ chat_pc = "get_schema"
    /\ gs_pc = "returned"
    /\ chat_calls' = Append(chat_calls,
          [text |-> chat_request.text,
           schema |-> gs_outcome.value.schema,
           system_prompt |-> WithTime(ChatSystemPrompt(chat_request)),
           session_history |-> SessionHistory(chat_request),
           image_data |-> chat_request.image_data,
           image_mime_type |-> chat_request.image_mime_type,
           model |-> chat_request.model])
    /\ chat_pc' = "completion"
    /\ pc' = "layer"
    /\ UNCHANGED <<chat_request, chat_response, gs_vars>>
    /\ UNCHANGED chat_frame

\* lines 696-697 (and 707-722 when the result is None)
ChatReturns ==
    /\ chat_pc = "completion"
    /\ pc \in {"returned", "fell_through"}
    /\ chat_response' = IF result = None THEN ChatError(NoneHasNoGet)
                        ELSE [status |-> 200, body |-> result]
    /\ chat_pc' = "done"
    /\ UNCHANGED <<chat_request, chat_calls, gs_vars, pc>>
    /\ UNCHANGED chat_frame

\* lines 698-722: the error of the completion layer becomes an HTTP error
ChatRaises ==
    /\ chat_pc = "completion"
    /\ pc = "raised"
    /\ chat_response' = ChatError(raised)
    /\ chat_pc' = "done"
    /\ UNCHANGED <<chat_request, chat_calls, gs_vars, pc>>
    /\ UNCHANGED chat_frame

chat_endpoint ==
    \/ ChatStart
    \/ ChatSchemaFailed
    \/ ChatCallsAi
    \/ ChatReturns
    \/ ChatRaises

---------------------------------------------------------------------------
(* index.py: get_targets *)

\* the i-th child block, of the given kind: a child database, a link to a
\* page, a link to a database, or a block that is no target
Block(kind, i) ==
    LET id == "block-" \o ToString(i) IN
    IF kind = "child_database"
    THEN [id |-> id, type |-> "child_database",
          child_database |-> [title |-> "db " \o ToString(i)]]
    ELSE IF kind = "link_page"
    THEN [id |-> id, type |-> "link_to_page",
          link_to_page |-> [type |-> "page_id", page_id |-> "page-" \o ToString(i)]]
    ELSE IF kind = "link_database"
    THEN [id |-> id, type |-> "link_to_page",
          link_to_page |-> [type |-> "database_id",
                            database_id |-> "db-" \o ToString(i)]]
    ELSE [id |-> id, type |-> "paragraph"]

\* fetch_children_list: the lists of up to MaxBlocks child blocks
ChildLists ==
    {[i \in 1 .. Len(kinds) |-> Block(kinds[i], i)] :
        kinds \in ListsOver({"child_database", "link_page", "link_database",
                             "paragraph"}, MaxBlocks)}

\* lines 426-433 and 448: process_block awaits the external store
NeedsLookup(block) == block.type = "link_to_page"

\* lines 408-459: the result of process_block, <<>> for None; found is
\* what the lookup of a link returned
ProcessBlock(block, found) ==
    IF block.type = "child_database"
    THEN <<[id |-> block.id, type |-> "database", title |-> block.child_database.title]>>
    ELSE IF block.type = "link_to_page" /\ found # <<>>
    THEN LET link == block.link_to_page IN
         IF link.type = "page_id"
         THEN <<[id |-> link.page_id, type |-> "page", title |-> found[1] \o " (Link)"]>>
         ELSE <<[id |-> link.database_id, type |-> "database",
                 title |-> found[1] \o " (Link)"]>>
    ELSE <<>>

\* a faulty variant: the results are listed as the lookups completed
Targets_AsCompleted(results, order) ==
    LET RECURSIVE Listed(_)
        Listed(o) == IF o = <<>> THEN <<>>
                     ELSE results[Head(o)].value \o Listed(Tail(o))
    IN Listed(order)

\* lines 462-464: the results of gather, in the order of the blocks,
\* without the empty ones
Targets(results, order) ==
    LET RECURSIVE Listed(_)
        Listed(i) == IF i > Len(results) THEN <<>>
                     ELSE results[i].value \o Listed(i + 1)
    IN Listed(1)

TargetsInit ==
    /\ tg_pc = "idle"
    /\ tg_children = <<>>
    /\ tg_results = <<>>
    /\ tg_order = <<>>
    /\ tg_response = None

\* lines 400-462: the children are fetched and one process_block per child
\* is handed to asyncio.gather
TargetsStart ==
    /\ tg_pc = "idle"
    /\ \E children \in ChildLists :
          /\ tg_children' = children
          /\ tg_results' = [i \in 1 .. Len(children) |-> Pending]
    /\ tg_pc' = "gather"
    /\ UNCHANGED <<tg_order, tg_response>>
    /\ UNCHANGED tg_frame

\* lines 408-425 and 459: a block that needs no lookup is done
ProcessBlockLocal ==
    /\ tg_pc = "gather"
    /\ \E i \in 1 .. Len(tg_children) :
          /\ tg_results[i] = Pending
          /\ ~NeedsLookup(tg_children[i])
          /\ tg_results' = [tg_results EXCEPT
                               ![i] = Returned(ProcessBlock(tg_children[i], <<>>))]
          /\ tg_order' = Append(tg_order, i)
    /\ UNCHANGED <<tg_pc, tg_children, tg_response>>
    /\ UNCHANGED tg_frame

\* lines 434-458: the lookup of a link returns the target or None
LookupReturns ==
    /\ tg_pc = "gather"
    /\ \E i \in 1 .. Len(tg_children) : \E found \in {<<>>, <<"linked">>} :
          /\ tg_results[i] = Pending
          /\ NeedsLookup(tg_children[i])
          /\ tg_results' = [tg_results EXCEPT
                               ![i] = Returned(ProcessBlock(tg_children[i], found))]
          /\ tg_order' = Append(tg_order, i)
    /\ UNCHANGED <<tg_pc, tg_children, tg_response>>
    /\ UNCHANGED tg_frame

\* lines 434 and 450: the lookup of a link raises
LookupRaises ==
    /\ tg_pc = "gather"
    /\ \E i \in 1 .. Len(tg_children) :
          /\ tg_results[i] = Pending
          /\ NeedsLookup(tg_children[i])
          /\ tg_results' = [tg_results EXCEPT ![i] = Raised(FetchError)]
          /\ tg_order' = Append(tg_order, i)
    /\ UNCHANGED <<tg_pc, tg_children, tg_response>>
    /\ UNCHANGED tg_frame

\* lines 462-466: every process_block returned, the targets are listed
GatherReturns ==
    /\ tg_pc = "gather"
    /\ \A i \in 1 .. Len(tg_results) : tg_results[i].outcome = "returned"
    /\ tg_response' = [status |-> 200,
                       body |-> [targets |-> Targets(tg_results, tg_order)]]
    /\ tg_pc' = "done"
    /\ UNCHANGED <<tg_children, tg_results, tg_order>>
    /\ UNCHANGED tg_frame

\* line 462: gather raises the exception of a process_block; nothing
\* catches it and the request ends as a server error
GatherRaises ==
    /\ tg_pc = "gather"
    /\ \E i \in 1 .. Len(tg_results) : tg_results[i].outcome = "raised"
    /\ tg_response' = [status |-> 500, body |-> "Internal Server Error"]
    /\ tg_pc' = "done"
    /\ UNCHANGED <<tg_children, tg_results, tg_order>>
    /\ UNCHANGED tg_frame

get_targets ==
    \/ TargetsStart
    \/ ProcessBlockLocal
    \/ LookupReturns
    \/ LookupRaises
    \/ GatherReturns
    \/ GatherRaises

vars == <<llm_vars, san_vars, save_vars, an_vars, chat_vars, gs_vars, tg_vars>>

\* the handlers at rest
HandlersIdle == AnalyzeInit /\ ChatInit /\ GetSchemaInit /\ TargetsInit

(* One call of generate_json *)
Init == LlmInit /\ SanIdle /\ SaveInit /\ HandlersIdle

Next == generate_json

Spec == Init /\ [][Next]_vars

(* The sanitizer on a text *)
SanitizeInit == LlmInit /\ SanInit /\ SaveInit /\ HandlersIdle

SanitizeNext == SanApplyOnce \/ SanApplyTwice

SanitizeSpec == SanitizeInit /\ [][SanitizeNext]_vars

(* One save request *)
SaveSpecInit == LlmInit /\ SanIdle /\ SaveInit /\ HandlersIdle

SaveNext == save

SaveSpec == SaveSpecInit /\ [][SaveNext]_vars

(* One analyze or chat request, with the generate_json call it leads to *)
HandlerInit == LlmNotCalled /\ SanIdle /\ SaveInit /\ HandlersIdle

HandlerNext ==
    \/ analyze
    \/ chat_endpoint
    \/ get_schema
    \/ CompletionLayerCalls
    \/ generate_json_steps

HandlerSpec == HandlerInit /\ [][HandlerNext]_vars

(* One targets request *)
TargetsSpec == Init /\ [][get_targets]_vars

---------------------------------------------------------------------------
(* Observations on the log of one generate_json call *)

Events(kind) == SelectSeq(log, LAMBDA e : e.ev = kind)
Calls == Len(Events("call"))
Failures == Len(Events("fail"))
Delays == [i \in 1 .. Len(Events("sleep")) |-> Events("sleep")[i].secs]

\* the log of a call whose first n attempts failed and slept, and whose
\* attempt n+1 is under way: call, fail, sleep(2*1), call, fail, sleep(2*2), ...
RetryPattern(n) ==
    /\ Len(log) >= 3 * n
    /\ \A i \in 1 .. n :
          /\ log[3 * i - 2].ev = "call" /\ log[3 * i - 2].attempt = i - 1
          /\ log[3 * i - 1].ev = "fail" /\ log[3 * i - 1].attempt = i - 1
          /\ log[3 * i].ev = "sleep" /\ log[3 * i].secs = 2 * i

(* C1: when the provider fails N times and then succeeds, with N <= retries,
   generate_json returns the successful response after exactly N+1 provider
   calls and exactly N delays 2*1, 2*2, ..., 2*N, the i-th delay lying between
   the i-th failure and the next call; a response with content is never
   followed by a failure or a further call. *)
C1_RetryThenSuccess ==
    /\ pc = "returned" =>
          /\ attempt <= retries
          /\ result.content = response.content
          /\ result.content = ContentJson
          /\ Calls = attempt + 1
          /\ Failures = attempt
          /\ Delays = [i \in 1 .. attempt |-> 2 * i]
          /\ RetryPattern(attempt)
          /\ Len(log) = 3 * attempt + 1
          /\ log[Len(log)].ev = "call" /\ log[Len(log)].outcome = "content"
    /\ \A i \in 1 .. Len(log) :
          (log[i].ev = "call" /\ log[i].outcome = "content")
             => i = Len(log) /\ pc \in {"respond", "returned"}
    /\ (pc = "respond" /\ response.content = ContentJson) => ENABLED RespondReturn

C1_Witness ==
    pc = "returned" /\ attempt = 2 /\ retries = 3 /\ Delays = <<2, 4>>

(* C2: when the provider fails on every one of the retries+1 attempts,
   generate_json raises an error wrapping the last underlying error, after
   exactly retries+1 provider calls and exactly retries delays; the last
   event is the final failure (no delay after it) and nothing is returned. *)
C2_ExhaustedRaises ==
    pc = "raised" =>
        /\ retries >= 0
        /\ raised.type = "RuntimeError"
        /\ raised.context = exc
        /\ raised.msg = <<"AI generation failed: ", exc.msg>>
        /\ Calls = retries + 1
        /\ Failures = retries + 1
        /\ Len(Delays) = retries
        /\ RetryPattern(retries)
        /\ Len(log) = 3 * retries + 2
        /\ log[Len(log)].ev = "fail" /\ log[Len(log)].attempt = retries
        /\ (log[Len(log)].cause = "empty" <=> exc.msg = "Empty AI response")
        /\ (log[Len(log)].cause # "empty" => log[Len(log)].cause = exc.type)
        /\ result = None

C2_Witness ==
    pc = "raised" /\ retries = 2 /\ Calls = 3 /\ Delays = <<2, 4>>

(* C3: generate_json never returns empty content: an attempt whose response
   has empty or missing content is a failure, is followed by the backoff delay
   of its attempt unless the budget is used up, and a call whose every
   attempt yields empty content raises after retries+1 attempts. *)
C3_EmptyContentRetried ==
    /\ pc = "returned" => (result.content # "" /\ result.content # NoContent)
    /\ \A i \in 1 .. Len(log) :
          (log[i].ev = "call" /\ log[i].outcome = "empty") =>
              /\ i = Len(log) => pc = "respond"
              /\ i < Len(log) =>
                    /\ log[i + 1].ev = "fail"
                    /\ log[i + 1].cause = "empty"
                    /\ log[i + 1].attempt = log[i].attempt
                    /\ pc # "returned" \/ i + 1 < Len(log)
              /\ (i + 1 = Len(log) /\ log[i].attempt = retries)
                    => pc \in {"except", "raised"}
              /\ (i + 2 <= Len(log)) =>
                    /\ log[i].attempt < retries
                    /\ log[i + 2].ev = "sleep"
                    /\ log[i + 2].secs = 2 * (log[i].attempt + 1)
    /\ (pc = "raised" /\ \A i \in 1 .. Len(log) : log[i].ev = "fail" => log[i].cause = "empty")
          => (Calls = retries + 1 /\ exc.msg = "Empty AI response")

C3_Witness ==
    /\ pc = "returned" /\ attempt = 2
    /\ \A i \in 1 .. Len(log) : log[i].ev = "fail" => log[i].cause = "empty"

C3_WitnessAllEmpty ==
    /\ pc = "raised" /\ retries = 2
    /\ \A i \in 1 .. Len(log) : log[i].ev = "fail" => log[i].cause = "empty"

\* every attempt of the call failed with a provider timeout
AllTimeouts ==
    \A i \in 1 .. Len(log) : log[i].ev = "fail" => log[i].cause = "Timeout"

(* C4: when every attempt fails with a provider timeout, the error raised
   on exhaustion has a timeout error class, a type other than that of the
   error raised when the last cause is a non-timeout provider failure. *)
C4_TimeoutErrorClass ==
    (pc = "raised" /\ AllTimeouts) =>
        raised.type # FinalError(ProviderError).type

\* the all-zero usage structure of a CompletionResult
ZeroUsage == [prompt_tokens |-> 0, completion_tokens |-> 0, total_tokens |-> 0]

(* C5: a response with non-empty content is returned on the same attempt
   whatever usage/cost extraction does: without usage metadata the returned
   usage is all zero, when cost computation raises the cost is 0, and
   neither case is a failure or causes a delay. *)
C5_BestEffortUsageCost ==
    /\ (pc = "respond" /\ ~ContentEmpty(response.content)) => ENABLED RespondReturn
    /\ pc = "returned" =>
          /\ log[Len(log)].ev = "call"
          /\ ~response.has_usage => result.usage = ZeroUsage
          /\ response.cost_raises => result.cost = 0

---------------------------------------------------------------------------
(* Observations on the write of a save request *)

RECURSIVE ConcatContents(_)
ConcatContents(segs) ==
    IF segs = <<>> THEN <<>>
    ELSE Head(segs).text.content \o ConcatContents(Tail(segs))

RECURSIVE TotalLength(_)
TotalLength(segs) ==
    IF segs = <<>> THEN 0
    ELSE (IF "text" \in DOMAIN Head(segs) THEN Len(Head(segs).text.content) ELSE 0)
         + TotalLength(Tail(segs))

\* segs are the segments of the text x: consecutive slices of at most 2000
\* characters, all but the last of exactly 2000, that concatenate to x
SegmentsOfText(x, segs) ==
    /\ \A k \in 1 .. Len(segs) :
          /\ "text" \in DOMAIN segs[k]
          /\ Len(segs[k].text.content) <= 2000
          /\ k < Len(segs) => Len(segs[k].text.content) = 2000
    /\ TotalLength(segs) = Len(x)
    /\ ConcatContents(segs) = x

\* out splits into one group per entry of items, in order: the segments of
\* the entry's sanitized text xs[i], or the entry itself if it has no text
RECURSIVE GroupedByEntry(_, _, _)
GroupedByEntry(items, xs, out) ==
    IF items = <<>> THEN out = <<>>
    ELSE \E n \in 0 .. Len(out) :
            /\ IF "text" \in DOMAIN Head(items)
               THEN SegmentsOfText(Head(xs), SubSeq(out, 1, n))
               ELSE n = 1 /\ out[1] = Head(items)
            /\ GroupedByEntry(Tail(items), Tail(xs), SubSeq(out, n + 1, Len(out)))

SanitizedTexts(items) ==
    [i \in 1 .. Len(items) |->
        IF "text" \in DOMAIN items[i]
        THEN sanitize_image_data(items[i].text.content) ELSE <<>>]

\* the lengths of the text segments of a list
SegmentLengths(segs) == [k \in 1 .. Len(segs) |-> Len(segs[k].text.content)]

(* C6: on the database path, the segments made from each title / rich_text
   entry concatenate in order to exactly the sanitized text of the entry,
   each segment is at most 2000 characters long and each but the last is
   exactly 2000 long. *)
C6_SegmentsRebuildText ==
    save_pc = "create_page" =>
        LET props == RequestOf(request).properties IN
        \A key \in DOMAIN props : \A f \in TextFields :
            f \in DOMAIN props[key] =>
                GroupedByEntry(props[key][f], SanitizedTexts(props[key][f]),
                               writes[1].properties[key][f])

C6_Witness ==
    /\ save_pc = "create_page"
    /\ "Body" \in DOMAIN request.properties
    /\ request.properties["Body"].rich_text = <<TextItem(TextSpec(Marker, 4500))>>
    /\ SegmentLengths(writes[1].properties["Body"].rich_text) = <<2000, 2000, 500>>

(* C7: an entry whose sanitized text is empty contributes no segment: no
   segment handed to create_page holds an empty text. *)
C7_EmptyTextNoSegment ==
    save_pc = "create_page" =>
        \A key \in DOMAIN writes[1].properties : \A f \in TextFields :
            f \in DOMAIN writes[1].properties[key] =>
                \A k \in 1 .. Len(writes[1].properties[key][f]) :
                    "text" \in DOMAIN writes[1].properties[key][f][k]
                        => writes[1].properties[key][f][k].text.content # <<>>

(* C8: on the page path, sanitized content longer than 100,000 characters
   is handed to append_block as its first 100,000 characters followed by
   the truncation marker, and content of at most 100,000 characters is
   handed over unchanged. *)
C8_PageTruncation ==
    save_pc = "append_block" =>
        LET x == sanitize_image_data(PageContent(RequestOf(request)))
            c == writes[1].content IN
        /\ Len(writes) = 1 /\ writes[1].op = "append_block"
        /\ Len(x) > 100000 =>
              /\ Len(c) = 100000 + Len(TruncationMarker)
              /\ SubSeq(c, 1, 100000) = SubSeq(x, 1, 100000)
              /\ SubSeq(c, 100001, Len(c)) = TruncationMarker
        /\ Len(x) <= 100000 => c = x

C8_Witness ==
    /\ save_pc = "append_block"
    /\ request.text = <<TextSpec(<<>>, 150000)>>
    /\ writes[1].content = Pad(100000) \o TruncationMarker

C8_WitnessUnchanged ==
    /\ save_pc = "append_block"
    /\ request.text = <<TextSpec(Marker, 100000)>>
    /\ writes[1].content = Pad(100000)

\* the number of characters of text a write carries
WriteTextLength(w) ==
    IF w.op = "append_block" THEN Len(w.content)
    ELSE LET props == w.properties
             FieldLength(val, f) == IF f \in DOMAIN val THEN TotalLength(val[f]) ELSE 0
             RECURSIVE Sum(_)
             Sum(keys) == IF keys = {} THEN 0
                          ELSE LET key == CHOOSE k \in keys : TRUE IN
                               FieldLength(props[key], "title")
                               + FieldLength(props[key], "rich_text")
                               + Sum(keys \ {key})
         IN Sum(DOMAIN props)

\* the text t ends with the truncation marker
EndsWithMarker(t) ==
    /\ Len(t) >= Len(TruncationMarker)
    /\ SubSeq(t, Len(t) - Len(TruncationMarker) + 1, Len(t)) = TruncationMarker

\* some text the write carries ends with the truncation marker
WriteHasMarker(w) ==
    IF w.op = "append_block" THEN EndsWithMarker(w.content)
    ELSE \E key \in DOMAIN w.properties : \E f \in TextFields :
            /\ f \in DOMAIN w.properties[key]
            /\ \E k \in 1 .. Len(w.properties[key][f]) :
                  /\ "text" \in DOMAIN w.properties[key][f][k]
                  /\ EndsWithMarker(w.properties[key][f][k].text.content)

(* C9: on both paths the text of a save request is capped at 100,000
   characters before chunking: every write carries at most 100,000
   characters of text, or 100,000 characters and the truncation marker. *)
C9_TotalPayloadCapped ==
    \A i \in 1 .. Len(writes) :
        \/ WriteTextLength(writes[i]) <= 100000
        \/ /\ WriteTextLength(writes[i]) = 100000 + Len(TruncationMarker)
           /\ WriteHasMarker(writes[i])

(* C10: sanitize_image_data is idempotent: applied twice to any text it
   gives the same text as applied once. *)
C10_SanitizeIdempotent ==
    san_pc = "twice" => san_twice = san_once

(* C11: a save request that returns success has performed exactly one
   external write, append_block when target_type is 'page' and create_page
   otherwise; no request performs more than one write, so a request that
   ends in an error has performed at most one. *)
C11_ExactlyOneWrite ==
    /\ Len(writes) <= 1
    /\ (save_pc = "done" /\ save_response.status = 200) =>
          /\ Len(writes) = 1
          /\ writes[1].op = IF request.target_type = "page"
                            THEN "append_block" ELSE "create_page"
    /\ (save_pc = "done" /\ save_response.status = 500) =>
          \/ writes = <<>> /\ write_result = None
          \/ Len(writes) = 1 /\ write_result = WriteRaised

\* a request whose type is neither 'page' nor 'database' has created a page
C11_Witness ==
    /\ save_pc = "done"
    /\ save_response.status = 200
    /\ request.target_type = "block"
    /\ Len(writes) = 1 /\ writes[1].op = "create_page"

C11_WitnessPage ==
    /\ save_pc = "done"
    /\ save_response.status = 200
    /\ request.target_type = "page"
    /\ Len(writes) = 1 /\ writes[1].op = "append_block"

C11_WitnessError ==
    /\ save_pc = "done"
    /\ save_response.status = 500
    /\ Len(writes) = 1

(* C16: on the page path, when append_block returns a falsy result the
   request still returns status 'success'; a page request ends in HTTP 500
   only when an exception was raised, by the write or before it. *)
C16_FalsyAppendIsSuccess ==
    (save_pc = "done" /\ request.target_type = "page") =>
        /\ write_result = Returned(FALSE) => save_response = SaveSuccess("")
        /\ save_response = SaveError =>
              \/ write_result = WriteRaised
              \/ write_result = None /\ PageContentRaises(RequestOf(request))

C16_Witness ==
    /\ save_pc = "done"
    /\ request.target_type = "page"
    /\ write_result = Returned(FALSE)
    /\ save_response.status = 200
    /\ save_response.body.status = "success"

\* out is the entries of items in their order, each entry standing either
\* as itself (an entry without 'text') or as a run of copies of the entry
\* that differ from it in text.content only and whose contents, in order,
\* make up the entry's sanitized text xs[i]
RECURSIVE EntriesKeptApart(_, _, _)
EntriesKeptApart(items, xs, out) ==
    IF items = <<>> THEN out = <<>>
    ELSE \E n \in 1 .. Len(out) :
            /\ IF "text" \in DOMAIN Head(items)
               THEN /\ \A k \in 1 .. n :
                          /\ "text" \in DOMAIN out[k]
                          /\ out[k] = [Head(items) EXCEPT
                                          !.text.content = out[k].text.content]
                    /\ TotalLength(SubSeq(out, 1, n)) = Len(Head(xs))
                    /\ ConcatContents(SubSeq(out, 1, n)) = Head(xs)
               ELSE n = 1 /\ out[1] = Head(items)
            /\ EntriesKeptApart(Tail(items), Tail(xs), SubSeq(out, n + 1, Len(out)))

(* C19: on the database path each entry of each title / rich_text list is
   chunked on its own: the list handed to create_page keeps the entries'
   order, the segments of an entry are contiguous and carry the entry's
   other fields unchanged, an entry without 'text' stands unchanged in its
   place, and every other field and property is handed over unchanged. *)
C19_ChunkingPerEntry ==
    save_pc = "create_page" =>
        LET props == RequestOf(request).properties
            out == writes[1].properties IN
        /\ DOMAIN out = DOMAIN props
        /\ \A key \in DOMAIN props :
              /\ DOMAIN out[key] = DOMAIN props[key]
              /\ \A f \in DOMAIN props[key] :
                    IF f \in TextFields
                    THEN EntriesKeptApart(props[key][f],
                                          SanitizedTexts(props[key][f]), out[key][f])
                    ELSE out[key][f] = props[key][f]

\* a split entry followed by an entry without text, beside a select property
C19_Witness ==
    /\ save_pc = "create_page"
    /\ DOMAIN request.properties = {"Name", "Body", "Tag"}
    /\ request.properties["Body"].rich_text =
          <<TextItem(TextSpec(Marker, 4500)), MentionItem>>
    /\ Len(writes[1].properties["Body"].rich_text) = 4
    /\ writes[1].properties["Body"].rich_text[3] =
          TextItem(Pad(500))
    /\ writes[1].properties["Body"].rich_text[4] = MentionItem
    /\ writes[1].properties["Tag"] = SelectProperty

---------------------------------------------------------------------------
(* Observations on the messages of a generate_json call *)

\* the parts list that carries the text and the image of the caller
ImageParts(im) ==
    <<[type |-> "text", text |-> im.text],
      [type |-> "image_url",
       image_url |-> [url |-> "data:" \o im.image_mime_type
                                \o ";base64," \o im.image_data]]>>

\* the one user message whose content is the value v
OneUserMessage(messages, v) ==
    /\ Len(messages) = 1
    /\ messages[1] = [role |-> "user", content |-> v]

(* C15: prepare_multimodal_prompt returns exactly the text part followed by
   the image part, the image as the data URI 'data:<mime>;base64,<data>';
   every provider call of generate_json is given one user message holding
   the prompt when the prompt is a string or a list whose first element has
   no 'role' key, and the prompt itself, unchanged, when it is a list whose
   first element has a 'role' key; so an image is sent inside one user
   message and never as a message of its own. *)
C15_ImageInsideOneUserMessage ==
    /\ image # None => prompt = PyList(ImageParts(image))
    /\ \A i \in 1 .. Len(log) :
          log[i].ev = "call" =>
              LET messages == log[i].messages IN
              /\ ~IsList(prompt) => OneUserMessage(messages, prompt)
              /\ (IsList(prompt) /\ prompt.list # <<>>) =>
                    IF "role" \in DOMAIN prompt.list[1]
                    THEN messages = prompt.list
                    ELSE OneUserMessage(messages, prompt)
              /\ image # None =>
                    /\ OneUserMessage(messages, PyList(ImageParts(image)))
                    /\ \A k \in 1 .. Len(messages) : "role" \in DOMAIN messages[k]

C15_Witness ==
    /\ image = [text |-> "task", image_data |-> "QUJD", image_mime_type |-> "image/png"]
    /\ Calls = 2
    /\ \A i \in 1 .. Len(log) :
          log[i].ev = "call" =>
              log[i].messages =
                  <<[role |-> "user",
                     content |-> PyList(
                         <<[type |-> "text", text |-> "task"],
                           [type |-> "image_url",
                            image_url |-> [url |-> "data:image/png;base64,QUJD"]]>>)]>>

\* a message list is handed over as it is
C15_WitnessMessageList ==
    /\ prompt = PyList(<<SystemMessage, UserMessage, SystemMessage, UserImageMessage>>)
    /\ Calls = 1
    /\ log[1].messages = <<SystemMessage, UserMessage, SystemMessage, UserImageMessage>>

(* C18: for every integer value of retries a finished call of generate_json
   has made at least one provider call and has either returned a result
   (content, usage, cost, model) or raised an error, never neither of the
   two, and no error is raised before a provider call. *)
C18_AttemptThenResultOrError ==
    /\ pc \in {"returned", "raised", "fell_through"} =>
          /\ Calls >= 1
          /\ (result # None) # (raised # None)
    /\ result # None => DOMAIN result = {"content", "usage", "cost", "model"}
    /\ raised # None => Calls >= 1

---------------------------------------------------------------------------
(* Observations on an analyze request *)

FetchFailed(f) == an_fetch[f].outcome = "raised"

\* analyze_text_with_ai is called once, after both fetches have ended, and
\* whatever way they ended the call is the next step
C12_OneCallAfterJoin ==
    /\ Len(an_calls) <= 1
    /\ an_calls # <<>> <=> an_pc \in {"completion", "done"}
    /\ an_calls # <<>> => Joined(an_fetch)
    /\ (an_pc = "gather" /\ Joined(an_fetch)) => ENABLED AnalyzeCallsAi
    /\ an_pc = "done" => an_response.status \in {200, 500, 504}

(* C12, as stated: the two fetches are gathered and, in every combination
   of success and failure and every order of completion, the completion
   layer is called exactly once, with schema = {} if and only if the schema
   fetch failed and recent_examples = [] if and only if the examples fetch
   failed, a successful value passed through unchanged. *)
C12_DefaultsIffFailed ==
    /\ C12_OneCallAfterJoin
    /\ an_calls # <<>> =>
          /\ an_calls[1].schema = EmptyDict <=> FetchFailed("schema")
          /\ an_calls[1].recent_examples = <<>> <=> FetchFailed("recent_examples")
          /\ \A f \in Fetches : ~FetchFailed(f) => an_calls[1][f] = an_fetch[f].value

(* C12, amended: as above, but with schema = {} whenever the schema fetch
   failed and recent_examples = [] whenever the examples fetch failed; a
   successful fetch's value, which may itself be empty, is passed through
   unchanged. *)
C12_DefaultsWhenFailed ==
    /\ C12_OneCallAfterJoin
    /\ an_calls # <<>> =>
          /\ FetchFailed("schema") => an_calls[1].schema = EmptyDict
          /\ FetchFailed("recent_examples") => an_calls[1].recent_examples = <<>>
          /\ \A f \in Fetches : ~FetchFailed(f) => an_calls[1][f] = an_fetch[f].value

\* the examples arrive first, the schema fetch fails after them
C12_Witness ==
    /\ an_pc = "completion"
    /\ an_order = <<"recent_examples", "schema">>
    /\ an_fetch["schema"] = Raised(FetchError)
    /\ an_fetch["recent_examples"] = Returned(<<[Name |-> "memo"]>>)
    /\ Len(an_calls) = 1
    /\ an_calls[1].schema = EmptyDict
    /\ an_calls[1].recent_examples = <<[Name |-> "memo"]>>

---------------------------------------------------------------------------
(* Observations on a chat request *)

(* C13: when get_schema fails for the target (the database lookup and the
   page lookup both fail) the chat request ends with HTTP 400 and the
   completion layer is never called; the completion layer is called only
   after get_schema returned. *)
C13_SchemaFailureIs400 ==
    /\ chat_calls # <<>> => gs_pc = "returned"
    /\ (chat_pc # "idle" /\ pc # "not_called") => gs_pc = "returned"
    /\ gs_pc = "raised" =>
          /\ gs_lookups = <<"database", "page">>
          /\ chat_calls = <<>>
          /\ pc = "not_called"
          /\ chat_pc \in {"get_schema", "done"}
          /\ chat_pc = "get_schema" => ENABLED ChatSchemaFailed /\ ~ENABLED ChatCallsAi
          /\ chat_pc = "done" => chat_response.status = 400

C13_Witness ==
    /\ chat_pc = "done"
    /\ gs_pc = "raised"
    /\ gs_lookups = <<"database", "page">>
    /\ chat_response.status = 400
    /\ chat_calls = <<>>

(* C14: the history handed to the completion layer is, when a reference
   context is given (a non-empty string), one system message holding the
   context followed by the entries of the request's history in their order
   and unchanged, and otherwise the request's history itself (the empty
   list for None); the step that hands it over leaves the request, its
   history included, as it was. *)
C14_ContextBeforeHistory ==
    [][Len(chat_calls') = Len(chat_calls) + 1 =>
          LET req == chat_request
              history == IF req.session_history = <<>> THEN <<>>
                         ELSE req.session_history[1]
              passed == chat_calls'[Len(chat_calls')].session_history IN
          /\ chat_request' = chat_request
          /\ IF req.reference_context \notin {<<>>, <<"">>}
             THEN /\ Len(passed) = Len(history) + 1
                  /\ passed[1] = [role |-> "system",
                                  content |-> req.reference_context[1]]
                  /\ \A i \in 1 .. Len(history) : passed[i + 1] = history[i]
             ELSE passed = history]_vars

C14_Witness ==
    /\ chat_pc = "completion"
    /\ chat_request.session_history = <<<<HistoryEntry(1), HistoryEntry(2)>>>>
    /\ chat_request.reference_context = <<"page text">>
    /\ chat_calls[1].session_history =
          <<[role |-> "system", content |-> "page text"],
            [role |-> "user", content |-> "turn 1"],
            [role |-> "assistant", content |-> "turn 2"]>>

\* no reference context: the history goes through as it is
C14_WitnessNoContext ==
    /\ chat_pc = "completion"
    /\ chat_request.session_history = <<<<HistoryEntry(1), HistoryEntry(2)>>>>
    /\ chat_request.reference_context = <<>>
    /\ chat_calls[1].session_history = <<HistoryEntry(1), HistoryEntry(2)>>

\* what tells one error response from another: the status and the label
ErrorClass(resp) == <<resp.status, resp.detail.error>>

(* C17: in analyze and in chat, a generate_json call that used up its
   retries on provider timeouts is answered with a response of another
   class than the one for a provider failure that is no timeout. *)
C17_TimeoutReportedDistinctly ==
    /\ (an_pc = "done" /\ pc = "raised" /\ AllTimeouts) =>
          ErrorClass(an_response) # ErrorClass(AnalyzeError(FinalError(ProviderError)))
    /\ (chat_pc = "done" /\ pc = "raised" /\ AllTimeouts) =>
          ErrorClass(chat_response) # ErrorClass(ChatError(FinalError(ProviderError)))

---------------------------------------------------------------------------
(* Observations on a targets request *)

\* the blocks whose process_block returned a target
Kept == {i \in 1 .. Len(tg_results) : tg_results[i].value # <<>>}
\* the place of block i among them
Rank(i) == Cardinality({j \in Kept : j <= i})
SomeLookupRaised == \E i \in 1 .. Len(tg_results) : tg_results[i].outcome = "raised"
SomeLookupPending == \E i \in 1 .. Len(tg_results) : tg_results[i] = Pending

(* C20: the targets listing starts one process_block per child block and
   lists nothing before all of them have ended; the listing holds the
   non-empty results in the order of the child blocks, whatever the order
   the lookups completed in, a block without a result being left out; when
   a lookup raises the request fails and no list is returned. *)
C20_TargetsInBlockOrder ==
    /\ tg_pc # "idle" => Len(tg_results) = Len(tg_children)
    /\ (tg_pc = "gather" /\ SomeLookupPending) => ~ENABLED GatherReturns
    /\ (tg_pc = "gather" /\ SomeLookupRaised) =>
          ENABLED GatherRaises /\ ~ENABLED GatherReturns
    /\ (tg_pc = "done" /\ SomeLookupRaised) => tg_response.status = 500
    /\ (tg_pc = "done" /\ tg_response.status = 200) =>
          /\ \A i \in 1 .. Len(tg_results) : tg_results[i].outcome = "returned"
          /\ Len(tg_order) = Len(tg_children)
          /\ Len(tg_response.body.targets) = Cardinality(Kept)
          /\ \A i \in Kept :
                tg_response.body.targets[Rank(i)] = tg_results[i].value[1]

\* the lookups complete last to first, the second finds nothing
C20_Witness ==
    /\ tg_pc = "done"
    /\ tg_children = <<Block("link_page", 1), Block("link_database", 2),
                       Block("child_database", 3)>>
    /\ tg_order = <<3, 2, 1>>
    /\ tg_response.status = 200
    /\ tg_response.body.targets =
          <<[id |-> "page-1", type |-> "page", title |-> "linked (Link)"],
            [id |-> "block-3", type |-> "database", title |-> "db 3"]>>

\* one lookup raised after another had returned: no list
C20_WitnessRaised ==
    /\ tg_pc = "done"
    /\ Len(tg_children) = 2
    /\ tg_results[1].outcome = "returned" /\ tg_results[1].value # <<>>
    /\ tg_results[2].outcome = "raised"
    /\ tg_response.status = 500

---------------------------------------------------------------------------
(* Observations on one get_schema call *)

\* a lookup ended without a target: it raised, or returned nothing
LookupFailed(lookup) ==
    \/ lookup.outcome = "raised"
    \/ lookup.outcome = "returned" /\ lookup.value = <<>>

\* the reason of a failed lookup as the caller can read it: the message of
\* the exception ("Unknown" when the exception has none), or the note that
\* nothing was returned
FailureReason(lookup) ==
    IF lookup.outcome = "raised"
    THEN IF lookup.exc.msg = "" THEN "Unknown" ELSE lookup.exc.msg
    ELSE "Target target-id not found as Page (returned None)"

\* C21: get_schema issues the database lookup first; when it succeeds the
\* call returns type "database" with that schema and the page lookup is
\* never issued; the page lookup is issued only after the database lookup
\* failed, and a page it finds makes the call return type "page" with the
\* fixed page schema; the call raises, with status 404 and the error
\* "Schema fetch failed", if and only if the database lookup failed and the
\* page lookup failed or returned nothing, and the error then carries the
\* reasons of both failures (an exception without a message is reported as
\* "Unknown").
C21_DatabaseFirstThenPageElse404 ==
    /\ gs_lookups \in {<<>>, <<"database">>, <<"database", "page">>}
    /\ gs_db.outcome = "returned" =>
          /\ gs_outcome = Returned([type |-> "database", schema |-> gs_db.value])
          /\ gs_lookups = <<"database">>
          /\ gs_page = Pending
    /\ (gs_page # Pending \/ Len(gs_lookups) = 2) => gs_db.outcome = "raised"
    /\ (gs_page.outcome = "returned" /\ gs_page.value # <<>>) =>
          gs_outcome = Returned([type |-> "page", schema |-> PageSchema])
    /\ gs_outcome.outcome = "raised" <=>
          (gs_db.outcome = "raised" /\ LookupFailed(gs_page))
    /\ gs_outcome.outcome = "raised" =>
          /\ gs_outcome.exc.status = 404
          /\ gs_outcome.exc.detail.error = "Schema fetch failed"
          /\ gs_outcome.exc.detail.database_error = FailureReason(gs_db)
          /\ gs_outcome.exc.detail.page_error = FailureReason(gs_page)

\* both lookups raised, each with a message, and the 404 was raised
C21_Witness ==
    /\ gs_pc = "raised"
    /\ gs_db.outcome = "raised" /\ gs_db.exc.msg # ""
    /\ gs_page.outcome = "raised" /\ gs_page.exc.msg # ""
    /\ gs_outcome.exc.status = 404

\* the database lookup succeeded at once
C21_WitnessDatabase ==
    /\ gs_pc = "returned"
    /\ gs_db.outcome = "returned"
    /\ gs_lookups = <<"database">>

\* the database lookup failed and the page lookup found a page
C21_WitnessPage ==
    /\ gs_pc = "returned"
    /\ gs_db.outcome = "raised"
    /\ gs_page.outcome = "returned" /\ gs_page.value # <<>>

\* the database lookup timed out without a message and the page lookup
\* returned nothing
C21_WitnessNothing ==
    /\ gs_pc = "raised"
    /\ gs_db.outcome = "raised" /\ gs_db.exc.msg = ""
    /\ gs_page = Returned(<<>>)

====
